---- MODULE Spec2Model ----
(***************************************************************************)
(* Model of sk-pkg/mysql: the connection builder (mysql.go: New, NewMulti, *)
(* setOption, newConnect) and the gorm logging adapter (logger.go: NewLog, *)
(* LogMode, Info, Warn, Error, Trace).                                     *)
(***************************************************************************)
EXTENDS Integers, Sequences, FiniteSets, TLC

VARIABLES
    \* ---- connection builder (mysql.go) ----
    pc,        \* "idle" before a call, "loop" inside NewMulti's range loop, "done" after return
    call,      \* the entry point called and the options passed to it
    opt,       \* the option struct setOption returned
    idx,       \* position of NewMulti's range loop in opt.dbConfigs
    dbs,       \* NewMulti's local map from database name to connection
    conns,     \* every connection gorm.Open has produced, in order of opening
    attempts,  \* the newConnect calls made: the record's position and the outcome, in call order
    ret,       \* what the entry point returned
    \* ---- logging adapter (logger.go) ----
    loggers,   \* the logger structs allocated so far; a *logger is an index
    origin,    \* per logger, the call that allocated it: NewLog and the level name its
               \* options asked for, or LogMode, the logger copied and the level asked for
    emitted,   \* per logger, whether it has passed any record to its manager
    last       \* the most recent call on the adapter and the records it emitted

connVars == <<pc, call, opt, idx, dbs, conns, attempts, ret>>
logVars == <<loggers, origin, emitted, last>>
vars == <<pc, call, opt, idx, dbs, conns, attempts, ret, loggers, origin, emitted, last>>

(***************************************************************************)
(* Bounds of the model.                                                    *)
(***************************************************************************)
MaxConfigs == 2   \* longest list of records given to WithConfigs
MaxOpts == 2      \* longest list of options given to New / NewMulti / NewLog
MaxLoggers == 3   \* most logger structs allocated when only NewLog and LogMode are called
MaxUsed == 2      \* most logger structs allocated when the loggers are also logged to

SeqsUpTo(S, n) == UNION {[1..k -> S] : k \in 0..n}

(***************************************************************************)
(* mysql.go: constants, Config, option, the With* options.                 *)
(***************************************************************************)
defaultMaxIdleConn == 10
defaultMaxOpenConn == 50
\* 3 * time.Hour, in hours
defaultConnMaxLifetime == 3

Config(u, p, h, d) == [User |-> u, Password |-> p, Host |-> h, DBName |-> d]

\* The records callers pass: two databases on one host, and a second host
\* that has a database with the same name as one on the first.
Configs ==
    { Config("u1", "p1", "h1:3306", "db1"),
      Config("u1", "p1", "h1:3306", "db2"),
      Config("u2", "p2", "h2:3306", "db1") }

WithConfigs(cfg) == [kind |-> "WithConfigs", val |-> cfg]
WithGormConfig(cfg) == [kind |-> "WithGormConfig", val |-> cfg]
WithMaxIdleConn(n) == [kind |-> "WithMaxIdleConn", val |-> n]
WithConnMaxLifetime(d) == [kind |-> "WithConnMaxLifetime", val |-> d]
WithMaxOpenConn(n) == [kind |-> "WithMaxOpenConn", val |-> n]

Options ==
    {WithConfigs(c) : c \in SeqsUpTo(Configs, MaxConfigs)}
        \cup {WithGormConfig("custom")}
        \cup {WithMaxIdleConn(n) : n \in {5, 20}}
        \cup {WithMaxOpenConn(100)}
        \cup {WithConnMaxLifetime(4)}

\* A copy-paste slip in WithMaxIdleConn's closure: it also writes maxOpenConn.
ApplyOptionIdleWritesOpen(o, f) ==
    CASE f.kind = "WithConfigs" -> [o EXCEPT !.dbConfigs = f.val]
      [] f.kind = "WithGormConfig" -> [o EXCEPT !.gormConfig = f.val]
      [] f.kind = "WithMaxIdleConn" -> [o EXCEPT !.maxIdleConn = f.val, !.maxOpenConn = f.val]
      [] f.kind = "WithConnMaxLifetime" -> [o EXCEPT !.connMaxLifetime = f.val]
      [] f.kind = "WithMaxOpenConn" -> [o EXCEPT !.maxOpenConn = f.val]

\* Applying one Option closure to the option struct.
ApplyOption(o, f) ==
    CASE f.kind = "WithConfigs" -> [o EXCEPT !.dbConfigs = f.val]
      [] f.kind = "WithGormConfig" -> [o EXCEPT !.gormConfig = f.val]
      [] f.kind = "WithMaxIdleConn" -> [o EXCEPT !.maxIdleConn = f.val]
      [] f.kind = "WithConnMaxLifetime" -> [o EXCEPT !.connMaxLifetime = f.val]
      [] f.kind = "WithMaxOpenConn" -> [o EXCEPT !.maxOpenConn = f.val]

\* The struct literal setOption starts from: unnamed fields are Go zero values.
optionDefaults ==
    [dbConfigs |-> <<>>, gormConfig |-> "zero",
     maxIdleConn |-> defaultMaxIdleConn,
     maxOpenConn |-> defaultMaxOpenConn,
     connMaxLifetime |-> defaultConnMaxLifetime]

RECURSIVE applyAll(_, _)
applyAll(o, os) ==
    IF os = <<>> THEN o ELSE applyAll(ApplyOption(o, Head(os)), Tail(os))

setOption(os) == applyAll(optionDefaults, os)

(***************************************************************************)
(* mysql.go: newConnect.  gorm.Open and db.DB() are the collaborators; the *)
(* outcome says which of them, if any, failed.                             *)
(***************************************************************************)
Outcomes == {"ok", "openErr", "poolErr"}

\* The format's arguments with host and database name in each other's place.
DSNHostAndNameSwapped(cfg) ==
    cfg.User \o ":" \o cfg.Password \o "@tcp(" \o cfg.DBName \o ")/" \o cfg.Host
        \o "?charset=utf8mb4&parseTime=True&loc=Local"

DSN(cfg) ==
    cfg.User \o ":" \o cfg.Password \o "@tcp(" \o cfg.Host \o ")/" \o cfg.DBName
        \o "?charset=utf8mb4&parseTime=True&loc=Local"

\* The pool settings of a connection nothing has configured yet (database/sql's own).
poolUnset == [set |-> FALSE, idle |-> 0, open |-> 0, life |-> 0]

\* opened: the connections gorm.Open produced (none or one); ok: whether a *gorm.DB
\* is returned (it is then the opened one); err: the error returned ("" is nil).
newConnect(cfg, o, outcome) ==
    LET dsn == DSN(cfg)
        db == [dsn |-> dsn, gormConfig |-> o.gormConfig, pool |-> poolUnset, closed |-> FALSE]
    IN  IF outcome = "openErr"
        THEN [opened |-> <<>>, ok |-> FALSE, err |-> "open failed: " \o dsn]
        ELSE IF outcome = "poolErr"
        THEN [opened |-> <<db>>, ok |-> FALSE, err |-> "pool handle failed: " \o dsn]
        ELSE [opened |-> <<[db EXCEPT !.pool = [set |-> TRUE,
                                                 idle |-> o.maxIdleConn,
                                                 open |-> o.maxOpenConn,
                                                 life |-> o.connMaxLifetime]]>>,
              ok |-> TRUE, err |-> ""]

(***************************************************************************)
(* mysql.go: New and NewMulti.                                             *)
(***************************************************************************)
EmptyMap == [n \in {} |-> 0]
\* A map store that leaves an existing key alone.
MapPutKeepsFirst(m, k, v) ==
    [n \in DOMAIN m \cup {k} |-> IF n \in DOMAIN m THEN m[n] ELSE v]

MapPut(m, k, v) == [n \in DOMAIN m \cup {k} |-> IF n = k THEN v ELSE m[n]]

\* A return value: db is a connection (index into conns, 0 for nil), m the map
\* (nilMap when the map returned is nil), err the error ("" for nil).
NoRet == [fn |-> "", db |-> 0, nilMap |-> TRUE, m |-> EmptyMap, err |-> ""]
RetNew(db, err) == [fn |-> "New", db |-> db, nilMap |-> TRUE, m |-> EmptyMap, err |-> err]
RetMultiErr(err) == [fn |-> "NewMulti", db |-> 0, nilMap |-> TRUE, m |-> EmptyMap, err |-> err]
RetMulti(m) == [fn |-> "NewMulti", db |-> 0, nilMap |-> FALSE, m |-> m, err |-> ""]

\* New's guard weakened to NewMulti's: only an empty list is refused.
NewRejectsOnlyEmpty(o) == Len(o.dbConfigs) < 1

\* New's guard: len(opt.dbConfigs) != 1
NewRejects(o) == Len(o.dbConfigs) # 1
\* NewMulti's guard: len(opt.dbConfigs) < 1
NewMultiRejects(o) == Len(o.dbConfigs) < 1

\* No call has been made on the adapter.
NoCall == [op |-> "none"]

ConnInit ==
    /\ loggers = <<>>
    /\ origin = <<>>
    /\ emitted = <<>>
    /\ last = NoCall
    /\ pc = "idle"
    /\ call = [fn |-> "", opts |-> <<>>]
    /\ opt = [dbConfigs |-> <<>>, gormConfig |-> "zero", maxIdleConn |-> 0,
              maxOpenConn |-> 0, connMaxLifetime |-> 0]
    /\ idx = 0
    /\ dbs = EmptyMap
    /\ conns = <<>>
    /\ attempts = <<>>
    /\ ret = NoRet

New ==
    /\ pc = "idle"
    /\ \E os \in SeqsUpTo(Options, MaxOpts), outcome \in Outcomes :
        LET o == setOption(os) IN
        /\ call' = [fn |-> "New", opts |-> os]
        /\ opt' = o
        /\ IF NewRejects(o)
           THEN /\ ret' = RetNew(0, "this method can only initialize one database connection instance")
                /\ UNCHANGED <<conns, attempts>>
           ELSE LET r == newConnect(o.dbConfigs[1], o, outcome) IN
                /\ attempts' = Append(attempts, [rec |-> 1, outcome |-> outcome])
                /\ conns' = conns \o r.opened
                /\ ret' = RetNew(IF r.ok THEN Len(conns) + 1 ELSE 0, r.err)
    /\ pc' = "done"
    /\ UNCHANGED <<idx, dbs>>
    /\ UNCHANGED logVars

NewMultiBegin ==
    /\ pc = "idle"
    /\ \E os \in SeqsUpTo(Options, MaxOpts) :
        LET o == setOption(os) IN
        /\ call' = [fn |-> "NewMulti", opts |-> os]
        /\ opt' = o
        /\ IF NewMultiRejects(o)
           THEN /\ ret' = RetMultiErr("the number of database configurations to initialize cannot be 0")
                /\ pc' = "done"
                /\ UNCHANGED <<idx, dbs>>
           ELSE /\ dbs' = EmptyMap
                /\ idx' = 1
                /\ pc' = "loop"
                /\ UNCHANGED ret
    /\ UNCHANGED <<conns, attempts>>
    /\ UNCHANGED logVars

\* The loop body with the map keyed by the record's host instead of its name.
rangeBodyKeyedByHost(o, i, m, cs, outcome) ==
    LET cfg == o.dbConfigs[i]
        r == newConnect(cfg, o, outcome)
    IN  IF r.err # ""
        THEN [returned |-> TRUE, ret |-> RetMultiErr(r.err), dbs |-> m,
              conns |-> cs \o r.opened]
        ELSE [returned |-> FALSE, ret |-> NoRet, dbs |-> MapPut(m, cfg.Host, Len(cs) + 1),
              conns |-> cs \o r.opened]

\* The loop body with the error skipped (continue) instead of returned.
rangeBodySkipsError(o, i, m, cs, outcome) ==
    LET cfg == o.dbConfigs[i]
        r == newConnect(cfg, o, outcome)
    IN  IF r.err # ""
        THEN [returned |-> FALSE, ret |-> NoRet, dbs |-> m,
              conns |-> cs \o r.opened]
        ELSE [returned |-> FALSE, ret |-> NoRet, dbs |-> MapPut(m, cfg.DBName, Len(cs) + 1),
              conns |-> cs \o r.opened]

\* The loop body returning the map built so far along with the error.
rangeBodyReturnsPartialMap(o, i, m, cs, outcome) ==
    LET cfg == o.dbConfigs[i]
        r == newConnect(cfg, o, outcome)
    IN  IF r.err # ""
        THEN [returned |-> TRUE,
              ret |-> [fn |-> "NewMulti", db |-> 0, nilMap |-> FALSE, m |-> m, err |-> r.err],
              dbs |-> m, conns |-> cs \o r.opened]
        ELSE [returned |-> FALSE, ret |-> NoRet, dbs |-> MapPut(m, cfg.DBName, Len(cs) + 1),
              conns |-> cs \o r.opened]

\* One pass through the body of NewMulti's range loop, for record i.
rangeBody(o, i, m, cs, outcome) ==
    LET cfg == o.dbConfigs[i]
        r == newConnect(cfg, o, outcome)
    IN  IF r.err # ""
        THEN [returned |-> TRUE, ret |-> RetMultiErr(r.err), dbs |-> m,
              conns |-> cs \o r.opened]
        ELSE [returned |-> FALSE, ret |-> NoRet, dbs |-> MapPut(m, cfg.DBName, Len(cs) + 1),
              conns |-> cs \o r.opened]

NewMultiIter ==
    /\ pc = "loop"
    /\ idx <= Len(opt.dbConfigs)
    /\ \E outcome \in Outcomes :
        LET b == rangeBody(opt, idx, dbs, conns, outcome) IN
        /\ attempts' = Append(attempts, [rec |-> idx, outcome |-> outcome])
        /\ conns' = b.conns
        /\ dbs' = b.dbs
        /\ IF b.returned
           THEN /\ ret' = b.ret
                /\ pc' = "done"
                /\ UNCHANGED idx
           ELSE /\ idx' = idx + 1
                /\ UNCHANGED <<ret, pc>>
    /\ UNCHANGED <<call, opt>>
    /\ UNCHANGED logVars

NewMultiReturn ==
    /\ pc = "loop"
    /\ idx > Len(opt.dbConfigs)
    /\ ret' = RetMulti(dbs)
    /\ pc' = "done"
    /\ UNCHANGED <<call, opt, idx, dbs, conns, attempts>>
    /\ UNCHANGED logVars

ConnNext == New \/ NewMultiBegin \/ NewMultiIter \/ NewMultiReturn

SpecConn == ConnInit /\ [][ConnNext]_vars

(***************************************************************************)
(* logger.go: constants, the logger struct, the With* logger options.      *)
(***************************************************************************)
\* gormlogger.LogLevel: Silent, Error, Warn, Info
gormSilent == 1
gormError == 2
gormWarn == 3
gormInfo == 4

defaultLogLevel == gormWarn
defaultIgnoreRecordNotFoundError == TRUE
\* 200 * time.Millisecond, in microseconds
defaultSlowThreshold == 200000

Managers == {"m1"}
LevelNames == {"info", "warn", "error", "silent"}
\* The levels gorm may pass to LogMode: one below Silent to one above Info.
LogLevels == (gormSilent - 1)..(gormInfo + 1)
\* time.Duration values, in microseconds
Thresholds == {0, 200000}
Elapsed == {100500, 250000}

\* The switch of WithLevel with the "error" case assigning Warn.
levelOfErrorGivesWarn(level) ==
    CASE level = "warn" -> gormWarn
      [] level = "error" -> gormWarn
      [] level = "silent" -> gormSilent
      [] OTHER -> defaultLogLevel

\* The switch of WithLevel.
levelOf(level) ==
    CASE level = "warn" -> gormWarn
      [] level = "error" -> gormError
      [] level = "silent" -> gormSilent
      [] OTHER -> defaultLogLevel

WithLevel(level) == [kind |-> "WithLevel", arg |-> level, logLevel |-> levelOf(level)]
WithIgnoreRecordNotFoundError(ignore) ==
    [kind |-> "WithIgnoreRecordNotFoundError", arg |-> ignore, logLevel |-> 0]
WithSlowThreshold(threshold) ==
    [kind |-> "WithSlowThreshold", arg |-> threshold, logLevel |-> 0]

LoggerOptions ==
    {WithLevel(n) : n \in LevelNames}
        \cup {WithIgnoreRecordNotFoundError(b) : b \in BOOLEAN}
        \cup {WithSlowThreshold(d) : d \in Thresholds}

\* WithSlowThreshold's closure also switching the ignore flag off.
ApplyLoggerOptionThresholdClearsIgnore(l, f) ==
    CASE f.kind = "WithLevel" -> [l EXCEPT !.logLevel = f.logLevel]
      [] f.kind = "WithIgnoreRecordNotFoundError" ->
            [l EXCEPT !.ignoreRecordNotFoundError = f.arg]
      [] f.kind = "WithSlowThreshold" ->
            [l EXCEPT !.slowThreshold = f.arg, !.ignoreRecordNotFoundError = FALSE]

\* Applying one LoggerOption closure to the logger struct.
ApplyLoggerOption(l, f) ==
    CASE f.kind = "WithLevel" -> [l EXCEPT !.logLevel = f.logLevel]
      [] f.kind = "WithIgnoreRecordNotFoundError" ->
            [l EXCEPT !.ignoreRecordNotFoundError = f.arg]
      [] f.kind = "WithSlowThreshold" -> [l EXCEPT !.slowThreshold = f.arg]

RECURSIVE applyAllLogger(_, _)
applyAllLogger(l, os) ==
    IF os = <<>> THEN l
    ELSE applyAllLogger(ApplyLoggerOption(l, Head(os)), Tail(os))

\* The struct NewLog builds.
newLog(manager, os) ==
    applyAllLogger([manager |-> manager,
                    logLevel |-> defaultLogLevel,
                    slowThreshold |-> defaultSlowThreshold,
                    ignoreRecordNotFoundError |-> defaultIgnoreRecordNotFoundError],
                   os)

\* LogMode building a fresh default logger at the level instead of copying l.
logModeFromDefaults(l, level) ==
    [manager |-> l.manager,
     logLevel |-> level,
     slowThreshold |-> defaultSlowThreshold,
     ignoreRecordNotFoundError |-> defaultIgnoreRecordNotFoundError]

\* The struct LogMode builds: newLogger := *l; newLogger.logLevel = level
logMode(l, level) == [l EXCEPT !.logLevel = level]

(***************************************************************************)
(* logger.go: Info, Warn, Error (logIfEnabled, log) and Trace.  What they  *)
(* do is call the manager; the result is the list of records passed to it. *)
(***************************************************************************)
\* Errors gorm hands to Trace: none, record-not-found itself, an error that
\* wraps it, and an unrelated one.
ErrNil == "nil"
ErrRecordNotFound == "record not found"
Errs == {ErrNil, ErrRecordNotFound, "find user: record not found", "connection refused"}
\* errors.Is(err, gormlogger.ErrRecordNotFound)
IsRecordNotFound(err) == err \in {ErrRecordNotFound, "find user: record not found"}

\* fmt.Sprintf with a format given as its pieces, "%v" standing for a verb.
RECURSIVE Sprintf(_, _)
Sprintf(format, data) ==
    IF format = <<>> THEN ""
    ELSE IF Head(format) = "%v"
    THEN (IF data = <<>> THEN "%!v(MISSING)" ELSE Head(data))
             \o Sprintf(Tail(format), IF data = <<>> THEN data ELSE Tail(data))
    ELSE Head(format) \o Sprintf(Tail(format), data)

\* log: the message is formatted only when there is data.
log(sev, msg, data) ==
    <<[sev |-> sev, msg |-> IF Len(data) > 0 THEN Sprintf(msg, data) ELSE Sprintf(msg, <<>>)]>>

\* The level test the wrong way round.
logIfEnabledInverted(l, level, sev, msg, data) ==
    IF l.logLevel <= level THEN log(sev, msg, data) ELSE <<>>

logIfEnabled(l, level, sev, msg, data) ==
    IF l.logLevel >= level THEN log(sev, msg, data) ELSE <<>>

\* fmt.Sprintf("%.3f ms", float64(elapsed.Nanoseconds())/1e6), elapsed in microseconds
Pad3(n) == IF n < 10 THEN "00" \o ToString(n) ELSE IF n < 100 THEN "0" \o ToString(n) ELSE ToString(n)
elapsedMs(elapsed) == ToString(elapsed \div 1000) \o "." \o Pad3(elapsed % 1000) \o " ms"

\* The && of the error case's not-found test written in place of its ||.
errorCaseBothRequired(l, err) ==
    /\ err # ErrNil
    /\ l.logLevel >= gormError
    /\ (~IsRecordNotFound(err) /\ ~l.ignoreRecordNotFoundError)

\* Trace's first case.
errorCase(l, err) ==
    /\ err # ErrNil
    /\ l.logLevel >= gormError
    /\ (~IsRecordNotFound(err) \/ ~l.ignoreRecordNotFoundError)

\* The slow case asking for a level above Warn.
slowCaseAboveWarn(l, elapsed) ==
    elapsed > l.slowThreshold /\ l.slowThreshold # 0 /\ l.logLevel > gormWarn

\* Trace's second case.
slowCase(l, elapsed) ==
    elapsed > l.slowThreshold /\ l.slowThreshold # 0 /\ l.logLevel >= gormWarn

\* Trace's third case.
infoCase(l) == l.logLevel >= gormInfo

errorRecord(sql, rows, err, elapsed) ==
    [sev |-> "error", msg |-> "db error trace", sql |-> sql, error |-> err,
     elapsed |-> elapsedMs(elapsed), rows |-> rows]
slowRecord(sql, rows, elapsed) ==
    [sev |-> "warn", msg |-> "db slow query", sql |-> sql,
     elapsed |-> elapsedMs(elapsed), rows |-> rows]
traceRecord(sql, rows, elapsed) ==
    [sev |-> "info", msg |-> "db trace", sql |-> sql,
     elapsed |-> elapsedMs(elapsed), rows |-> rows]

\* Trace with the slow case tried before the error case.
traceSlowFirst(l, elapsed, sql, rows, err) ==
    IF l.logLevel <= gormSilent THEN <<>>
    ELSE IF slowCase(l, elapsed) THEN <<slowRecord(sql, rows, elapsed)>>
    ELSE IF errorCase(l, err) THEN <<errorRecord(sql, rows, err, elapsed)>>
    ELSE IF infoCase(l) THEN <<traceRecord(sql, rows, elapsed)>>
    ELSE <<>>

\* Trace returning at once on an ignored record-not-found.
traceDropsSuppressed(l, elapsed, sql, rows, err) ==
    IF l.logLevel <= gormSilent THEN <<>>
    ELSE IF err # ErrNil /\ IsRecordNotFound(err) /\ l.ignoreRecordNotFoundError THEN <<>>
    ELSE IF errorCase(l, err) THEN <<errorRecord(sql, rows, err, elapsed)>>
    ELSE IF slowCase(l, elapsed) THEN <<slowRecord(sql, rows, elapsed)>>
    ELSE IF infoCase(l) THEN <<traceRecord(sql, rows, elapsed)>>
    ELSE <<>>

\* Trace: the records it passes to the manager.
trace(l, elapsed, sql, rows, err) ==
    IF l.logLevel <= gormSilent THEN <<>>
    ELSE IF errorCase(l, err) THEN <<errorRecord(sql, rows, err, elapsed)>>
    ELSE IF slowCase(l, elapsed) THEN <<slowRecord(sql, rows, elapsed)>>
    ELSE IF infoCase(l) THEN <<traceRecord(sql, rows, elapsed)>>
    ELSE <<>>

\* The level name the options leave in force ("" when WithLevel is not among them).
RECURSIVE levelAsked(_)
levelAsked(os) ==
    IF os = <<>> THEN ""
    ELSE IF os[Len(os)].kind = "WithLevel" THEN os[Len(os)].arg
    ELSE levelAsked(SubSeq(os, 1, Len(os) - 1))

LogInit ==
    /\ loggers = <<>>
    /\ origin = <<>>
    /\ emitted = <<>>
    /\ last = NoCall
    /\ pc = "idle"
    /\ call = [fn |-> "", opts |-> <<>>]
    /\ opt = [dbConfigs |-> <<>>, gormConfig |-> "zero", maxIdleConn |-> 0,
              maxOpenConn |-> 0, connMaxLifetime |-> 0]
    /\ idx = 0
    /\ dbs = EmptyMap
    /\ conns = <<>>
    /\ attempts = <<>>
    /\ ret = NoRet

\* The application builds its adapter once and hands it to gorm.
NewLog ==
    /\ loggers = <<>>
    /\ \E manager \in Managers, os \in SeqsUpTo(LoggerOptions, MaxOpts) :
        /\ loggers' = <<newLog(manager, os)>>
        /\ origin' = <<[op |-> "NewLog", from |-> 0, level |-> levelAsked(os)]>>
        /\ emitted' = <<FALSE>>
        /\ last' = [op |-> "NewLog", manager |-> manager, opts |-> os, ret |-> 1]
    /\ UNCHANGED connVars

\* LogMode setting the level on the receiver and returning it: l.logLevel = level; return l
LogModeCallInPlace(n) ==
    /\ Len(loggers) < n
    /\ \E l \in 1..Len(loggers), level \in LogLevels :
        /\ loggers' = [loggers EXCEPT ![l].logLevel = level]
        /\ last' = [op |-> "LogMode", l |-> l, level |-> level, ret |-> l]
        /\ UNCHANGED <<origin, emitted>>
    /\ UNCHANGED connVars

\* LogMode on any logger allocated so far, while fewer than n are allocated.
LogModeCall(n) ==
    /\ Len(loggers) < n
    /\ \E l \in 1..Len(loggers), level \in LogLevels :
        /\ loggers' = Append(loggers, logMode(loggers[l], level))
        /\ origin' = Append(origin, [op |-> "LogMode", from |-> l, level |-> level])
        /\ emitted' = Append(emitted, FALSE)
        /\ last' = [op |-> "LogMode", l |-> l, level |-> level, ret |-> Len(loggers) + 1]
    /\ UNCHANGED connVars

LogMode == LogModeCall(MaxLoggers)
LogModeUsed == LogModeCall(MaxUsed)

\* What gorm passes to Info, Warn and Error: a message alone, or a format and data.
Messages ==
    { [msg |-> <<"replica lag">>, data |-> <<>>],
      [msg |-> <<"failed: ", "%v">>, data |-> <<"timeout">>] }

\* A call of Info, Warn or Error on logger l.
Message(op, level, sev) ==
    \E l \in 1..Len(loggers), m \in Messages :
        LET recs == logIfEnabled(loggers[l], level, sev, m.msg, m.data) IN
        /\ emitted' = [emitted EXCEPT ![l] = @ \/ recs # <<>>]
        /\ last' = [op |-> op, l |-> l, msg |-> m.msg, data |-> m.data, recs |-> recs]
        /\ UNCHANGED <<loggers, origin>>
        /\ UNCHANGED connVars

Info == Message("Info", gormInfo, "info")
Warn == Message("Warn", gormWarn, "warn")
Error == Message("Error", gormError, "error")

Trace ==
    \E l \in 1..Len(loggers), elapsed \in Elapsed, err \in Errs :
        LET recs == trace(loggers[l], elapsed, "SELECT 1", 1, err) IN
        /\ emitted' = [emitted EXCEPT ![l] = @ \/ recs # <<>>]
        /\ last' = [op |-> "Trace", l |-> l, elapsed |-> elapsed, err |-> err, recs |-> recs]
        /\ UNCHANGED <<loggers, origin>>
        /\ UNCHANGED connVars

LogNext == NewLog \/ LogModeUsed \/ Info \/ Warn \/ Error \/ Trace
SpecLog == LogInit /\ [][LogNext]_vars

LogModeNext == NewLog \/ LogMode
SpecLogMode == LogInit /\ [][LogModeNext]_vars

(***************************************************************************)
(* Properties of the connection builder.                                   *)
(***************************************************************************)

\* What the options ask for, read off the list itself: the value of the last
\* option of the kind, or the default when there is none.
RECURSIVE LastOf(_, _, _)
LastOf(os, kind, default) ==
    IF os = <<>> THEN default
    ELSE IF os[Len(os)].kind = kind THEN os[Len(os)].val
    ELSE LastOf(SubSeq(os, 1, Len(os) - 1), kind, default)

\* The configuration records left once all options are applied.
RecordsGiven == LastOf(call.opts, "WithConfigs", <<>>)
NamesGiven == {RecordsGiven[i].DBName : i \in 1..Len(RecordsGiven)}
NewReturned == pc = "done" /\ call.fn = "New"
NewMultiReturned == pc = "done" /\ call.fn = "NewMulti"
\* Every record was tried and every try connected.
AllConnected ==
    /\ Len(attempts) = Len(RecordsGiven)
    /\ \A j \in 1..Len(attempts) : attempts[j].outcome = "ok"

\* C1: New returns a nil connection and an error, and calls newConnect for no
\* record, whenever the records left after all options are applied are not
\* exactly one; with exactly one record it calls newConnect exactly once, for
\* that record.
C1_NewNeedsExactlyOneRecord ==
    NewReturned =>
        IF Len(RecordsGiven) # 1
        THEN ret.db = 0 /\ ret.err # "" /\ attempts = <<>> /\ conns = <<>>
        ELSE /\ Len(attempts) = 1
             /\ attempts[1].rec = 1
             /\ Len(conns) <= 1
             /\ \A c \in 1..Len(conns) : conns[c].dsn = DSN(RecordsGiven[1])

\* C1 witness: New was given two records and refused them.
C1_Witness ==
    /\ NewReturned
    /\ Len(RecordsGiven) = 2
    /\ ret.db = 0
    /\ ret.err # ""

\* C2 as stated: NewMulti fails on zero records, and N records that all
\* connect give no error and a map of exactly N entries, one per record.
C2_MapHasOneEntryPerRecord ==
    NewMultiReturned =>
        /\ (Len(RecordsGiven) = 0 => ret.err # "")
        /\ (Len(RecordsGiven) >= 1 /\ AllConnected =>
                /\ ret.err = ""
                /\ ~ret.nilMap
                /\ Cardinality(DOMAIN ret.m) = Len(RecordsGiven))

\* C2 (amended): NewMulti fails on zero records; N records that all connect
\* give no error and a map whose keys are exactly the records' database
\* names, one entry per distinct name, each bound to a connection opened for a
\* record of that name; the map has N entries when the names are pairwise
\* distinct.
C2_MapHasOneEntryPerName ==
    NewMultiReturned =>
        /\ (Len(RecordsGiven) = 0 => ret.err # "" /\ ret.nilMap)
        /\ (Len(RecordsGiven) >= 1 /\ AllConnected =>
                /\ ret.err = ""
                /\ ~ret.nilMap
                /\ DOMAIN ret.m = NamesGiven
                /\ \A n \in DOMAIN ret.m :
                      /\ ret.m[n] \in 1..Len(conns)
                      /\ \E i \in 1..Len(RecordsGiven) :
                            /\ RecordsGiven[i].DBName = n
                            /\ conns[ret.m[n]].dsn = DSN(RecordsGiven[i])
                /\ (Cardinality(NamesGiven) = Len(RecordsGiven) =>
                        Cardinality(DOMAIN ret.m) = Len(RecordsGiven)))

\* C2 witness: two records with different names both connected and the map
\* returned has two entries.
C2_Witness ==
    /\ NewMultiReturned
    /\ Len(RecordsGiven) = 2
    /\ Cardinality(NamesGiven) = 2
    /\ AllConnected
    /\ ret.err = ""
    /\ Cardinality(DOMAIN ret.m) = 2

\* The error newConnect gives for a record under an outcome.
ErrorOf(cfg, outcome) ==
    IF outcome = "openErr" THEN "open failed: " \o DSN(cfg)
    ELSE IF outcome = "poolErr" THEN "pool handle failed: " \o DSN(cfg)
    ELSE ""
\* The position of the last of the first k records that has database name n.
LastWithName(n, k) ==
    CHOOSE i \in 1..k :
        /\ RecordsGiven[i].DBName = n
        /\ \A j \in (i + 1)..k : RecordsGiven[j].DBName # n
\* The j-th attempt did not connect.
Failed(j) == attempts[j].outcome # "ok"

\* C8: NewMulti calls newConnect for the records in input order, each at most
\* once; the first failure is returned at once and no later record is tried;
\* the connections opened for the earlier records stay open and stay in the
\* loop's map (under their database names).
C8_NewMultiFailsFast ==
    call.fn = "NewMulti" =>
        /\ Len(attempts) <= Len(RecordsGiven)
        /\ \A j \in 1..Len(attempts) : attempts[j].rec = j
        /\ \A j \in 1..Len(attempts) : Failed(j) => j = Len(attempts)
        /\ \A c \in 1..Len(conns) : ~conns[c].closed
        /\ (attempts # <<>> /\ Failed(Len(attempts)) =>
                LET k == Len(attempts) IN
                /\ pc = "done"
                /\ ret.err = ErrorOf(RecordsGiven[k], attempts[k].outcome)
                /\ DOMAIN dbs = {RecordsGiven[i].DBName : i \in 1..(k - 1)}
                \* records 1..k-1 each opened one connection, in order
                /\ \A n \in DOMAIN dbs :
                      /\ dbs[n] = LastWithName(n, k - 1)
                      /\ conns[dbs[n]].dsn = DSN(RecordsGiven[dbs[n]])
                      /\ conns[dbs[n]].pool.set)
        /\ (pc = "done" /\ ret.err = "" => AllConnected)

\* C8 witness: the second of two records failed after the first connected; the
\* first connection is open and in the loop's map.
C8_Witness ==
    /\ NewMultiReturned
    /\ Len(attempts) = 2
    /\ attempts[1].outcome = "ok"
    /\ Failed(2)
    /\ ret.err # ""
    /\ Cardinality(DOMAIN dbs) = 1
    /\ ~conns[1].closed

\* C9: every connection whose pool is configured, by New or by NewMulti, has
\* idle 10, open 50 and lifetime 3h unless the options name another value for
\* that setting, and then the last value named for that setting alone; every
\* connection handed back has its pool configured.
C9_PoolValues ==
    /\ \A c \in 1..Len(conns) :
          conns[c].pool.set =>
              /\ conns[c].pool.idle = LastOf(call.opts, "WithMaxIdleConn", 10)
              /\ conns[c].pool.open = LastOf(call.opts, "WithMaxOpenConn", 50)
              /\ conns[c].pool.life = LastOf(call.opts, "WithConnMaxLifetime", 3)
    /\ (ret.db # 0 => conns[ret.db].pool.set)
    /\ \A n \in DOMAIN dbs : conns[dbs[n]].pool.set

\* C9 witness: NewMulti opened two connections under an idle override only;
\* both have idle 20 and the defaults 50 and 3h.
C9_Witness ==
    /\ NewMultiReturned
    /\ Len(conns) = 2
    /\ LastOf(call.opts, "WithMaxIdleConn", 10) = 20
    /\ \A c \in 1..2 : conns[c].pool = [set |-> TRUE, idle |-> 20, open |-> 50, life |-> 3]

(***************************************************************************)
(* Properties of the logging adapter.                                      *)
(***************************************************************************)
Traced == last.op = "Trace"
\* The logger the last call was made on.
Callee == loggers[last.l]
HasRecord(recs, sev, msg) == \E i \in 1..Len(recs) : recs[i].sev = sev /\ recs[i].msg = msg
\* The statement traced took longer than a nonzero threshold.
TookTooLong == last.elapsed > Callee.slowThreshold /\ Callee.slowThreshold # 0
\* The error traced is record-not-found and the logger is told to ignore it.
Suppressed == IsRecordNotFound(last.err) /\ Callee.ignoreRecordNotFoundError

\* C3: on a logger built by NewLog with WithLevel("info"), every Trace of a
\* statement that ended without error and was not slow emits the informational
\* "db trace" record.
C3_InfoLevelRecordsEveryQuery ==
    (/\ Traced
     /\ origin[last.l].op = "NewLog"
     /\ origin[last.l].level = "info"
     /\ last.err = ErrNil
     /\ ~TookTooLong) =>
        HasRecord(last.recs, "info", "db trace")

\* C4: a Trace with an error on a logger of level Error or above emits the
\* "db error trace" record carrying that error, unless the error is
\* record-not-found and the logger ignores it: then no error record is emitted.
C4_ErrorsAreRecorded ==
    (Traced /\ last.err # ErrNil /\ Callee.logLevel >= 2) =>
        IF Suppressed
        THEN \A i \in 1..Len(last.recs) : last.recs[i].sev # "error"
        ELSE \E i \in 1..Len(last.recs) :
                /\ last.recs[i].sev = "error"
                /\ last.recs[i].msg = "db error trace"
                /\ last.recs[i].error = last.err

\* C4 witness: an error that wraps record-not-found was traced on a logger of
\* level Error that does not ignore it, and the error record came out.
C4_Witness ==
    /\ Traced
    /\ last.err = "find user: record not found"
    /\ Callee.logLevel = 2
    /\ ~Callee.ignoreRecordNotFoundError
    /\ HasRecord(last.recs, "error", "db error trace")

\* C5 as stated: every Trace that took longer than a nonzero threshold on a
\* logger of level Warn or above emits the "db slow query" warning; with a
\* threshold of 0 none is emitted.
C5_SlowIsAlwaysWarned ==
    Traced =>
        /\ (TookTooLong /\ Callee.logLevel >= 3 =>
                HasRecord(last.recs, "warn", "db slow query"))
        /\ (Callee.slowThreshold = 0 => ~HasRecord(last.recs, "warn", "db slow query"))

\* C5 (amended): a Trace that took longer than a nonzero threshold on a
\* logger of level Warn or above emits the "db slow query" warning when there
\* is no error or the error is an ignored record-not-found; with any other
\* error the error record is emitted and the warning is not; with a threshold
\* of 0 no slow-query warning is emitted.
C5_SlowIsWarnedUnlessError ==
    Traced =>
        /\ (TookTooLong /\ Callee.logLevel >= 3 =>
                IF last.err = ErrNil \/ Suppressed
                THEN HasRecord(last.recs, "warn", "db slow query")
                ELSE /\ HasRecord(last.recs, "error", "db error trace")
                     /\ ~HasRecord(last.recs, "warn", "db slow query"))
        /\ (Callee.slowThreshold = 0 => ~HasRecord(last.recs, "warn", "db slow query"))

\* C5 witness: a slow statement without error on a logger of level Warn got
\* the slow-query warning.
C5_Witness ==
    /\ Traced
    /\ last.err = ErrNil
    /\ TookTooLong
    /\ Callee.logLevel = 3
    /\ HasRecord(last.recs, "warn", "db slow query")

\* C6: a logger of level Silent or below never passes a record to its
\* manager, whatever is called on it: Trace, Info, Warn or Error.
C6_SilentEmitsNothing ==
    /\ \A l \in 1..Len(loggers) : loggers[l].logLevel <= 1 => ~emitted[l]
    /\ (last.op \in {"Trace", "Info", "Warn", "Error"} /\ Callee.logLevel <= 1 =>
            last.recs = <<>>)

\* C6 witness: Error was called on a logger of level Silent and nothing came
\* out of it.
C6_Witness ==
    /\ last.op = "Error"
    /\ Callee.logLevel = 1
    /\ last.recs = <<>>
    /\ ~emitted[last.l]

\* C7: the logger LogMode returns has the level asked for and the manager,
\* threshold and ignore flag of the logger it was called on, and stays so; no
\* call changes a logger that exists, so the original and the copy are
\* independent under later LogMode calls.
C7_LogModeCopies ==
    /\ [](\A i \in 1..Len(loggers) :
            origin[i].op = "LogMode" =>
                /\ loggers[i].logLevel = origin[i].level
                /\ loggers[i].manager = loggers[origin[i].from].manager
                /\ loggers[i].slowThreshold = loggers[origin[i].from].slowThreshold
                /\ loggers[i].ignoreRecordNotFoundError =
                       loggers[origin[i].from].ignoreRecordNotFoundError)
    /\ [][\A i \in 1..Len(loggers) : loggers'[i] = loggers[i]]_vars

\* C7 witness: a logger with a threshold and flag of its own was re-levelled,
\* and then the copy was re-levelled again; the three differ in level only.
C7_Witness ==
    /\ Len(loggers) = 3
    /\ origin[2].from = 1
    /\ origin[3].from = 2
    /\ loggers[1].slowThreshold = 0
    /\ ~loggers[1].ignoreRecordNotFoundError
    /\ loggers[2].logLevel # loggers[1].logLevel
    /\ loggers[3].logLevel # loggers[2].logLevel
    /\ loggers[3].slowThreshold = 0
    /\ ~loggers[3].ignoreRecordNotFoundError

\* C10: a Trace emits at most one record: the error record if there is an
\* error, the level is Error or above and the error is not an ignored
\* record-not-found; failing that the slow-query warning if the statement took
\* longer than a nonzero threshold and the level is Warn or above; failing
\* that the "db trace" record if the level is Info or above; else nothing.
C10_OneRecordByPrecedence ==
    Traced =>
        LET errorApplies == last.err # ErrNil /\ Callee.logLevel >= 2 /\ ~Suppressed
            slowApplies == TookTooLong /\ Callee.logLevel >= 3
            infoApplies == Callee.logLevel >= 4
        IN  /\ Len(last.recs) <= 1
            /\ ~(HasRecord(last.recs, "error", "db error trace")
                    /\ HasRecord(last.recs, "warn", "db slow query"))
            /\ IF errorApplies THEN HasRecord(last.recs, "error", "db error trace")
               ELSE IF slowApplies THEN HasRecord(last.recs, "warn", "db slow query")
               ELSE IF infoApplies THEN HasRecord(last.recs, "info", "db trace")
               ELSE last.recs = <<>>

\* C10 witness: a slow statement that also failed, on a logger of level Info:
\* the error record alone came out.
C10_Witness ==
    /\ Traced
    /\ last.err = "connection refused"
    /\ TookTooLong
    /\ Callee.logLevel = 4
    /\ Len(last.recs) = 1
    /\ last.recs[1].msg = "db error trace"

\* C11: on a logger built by NewLog with WithLevel("warn") every record that
\* Trace, Info, Warn or Error emits is a warning or an error, never an
\* informational one; on a logger built with WithLevel("error") every record
\* is an error.
C11_WarnAndErrorLevelsFilter ==
    (/\ last.op \in {"Trace", "Info", "Warn", "Error"}
     /\ origin[last.l].op = "NewLog") =>
        /\ (origin[last.l].level = "warn" =>
                \A i \in 1..Len(last.recs) : last.recs[i].sev \in {"warn", "error"})
        /\ (origin[last.l].level = "error" =>
                \A i \in 1..Len(last.recs) : last.recs[i].sev = "error")

\* C11 witness: a slow statement without error was traced on a logger built
\* with WithLevel("error") and nothing came out.
C11_Witness ==
    /\ Traced
    /\ origin[last.l].op = "NewLog"
    /\ origin[last.l].level = "error"
    /\ last.err = ErrNil
    /\ TookTooLong
    /\ last.recs = <<>>

\* The argument of the last logger option of the kind, or the default.
RECURSIVE LastArgOf(_, _, _)
LastArgOf(os, kind, default) ==
    IF os = <<>> THEN default
    ELSE IF os[Len(os)].kind = kind THEN os[Len(os)].arg
    ELSE LastArgOf(SubSeq(os, 1, Len(os) - 1), kind, default)

C13_ConfigurationIsNeverMutated ==
    [][/\ \A i \in 1..Len(loggers) : loggers'[i] = loggers[i]
       /\ (/\ last.op = "Trace"
           /\ last'.op = "Trace"
           /\ last'.elapsed = last.elapsed
           /\ last'.err = last.err
           /\ loggers'[last'.l] = loggers[last.l]) => last'.recs = last.recs]_vars

\* C13 witness: a logger was re-levelled and has since emitted records; it
\* still differs from its copy in level.
C13_Witness ==
    /\ Len(loggers) = 2
    /\ origin[2].from = 1
    /\ Traced
    /\ last.l = 1
    /\ emitted[1]
    /\ emitted[2]
    /\ loggers[1].logLevel # loggers[2].logLevel

\* The connection string of each record callers pass, written out.
ExpectedDSN(cfg) ==
    CASE cfg = Config("u1", "p1", "h1:3306", "db1") ->
            "u1:p1@tcp(h1:3306)/db1?charset=utf8mb4&parseTime=True&loc=Local"
      [] cfg = Config("u1", "p1", "h1:3306", "db2") ->
            "u1:p1@tcp(h1:3306)/db2?charset=utf8mb4&parseTime=True&loc=Local"
      [] cfg = Config("u2", "p2", "h2:3306", "db1") ->
            "u2:p2@tcp(h2:3306)/db1?charset=utf8mb4&parseTime=True&loc=Local"
\* The attempts that got as far as opening a connection.
ReachedOpen(a) == a.outcome # "openErr"
Opened == SelectSeq(attempts, ReachedOpen)

\* C14: the connection string of every connection opened is
\* user:password@tcp(host)/dbname?charset=utf8mb4&parseTime=True&loc=Local
\* with the fields of its record, whatever the other options are; connections
\* with the same string were opened for records with the same four fields.
C14_ConnectionString ==
    /\ Len(conns) = Len(Opened)
    /\ \A c \in 1..Len(conns) :
          conns[c].dsn = ExpectedDSN(RecordsGiven[Opened[c].rec])
    /\ \A c, d \in 1..Len(conns) :
          conns[c].dsn = conns[d].dsn =>
              RecordsGiven[Opened[c].rec] = RecordsGiven[Opened[d].rec]

\* C14 witness: under a custom gorm config the record on the second host was
\* opened with its own connection string.
C14_Witness ==
    /\ Len(conns) = 1
    /\ opt.gormConfig = "custom"
    /\ conns[1].dsn = "u2:p2@tcp(h2:3306)/db1?charset=utf8mb4&parseTime=True&loc=Local"

\* C15: a Trace whose error is an ignored record-not-found emits the
\* slow-query warning when the statement took longer than a nonzero threshold
\* and the level is Warn or above, otherwise the "db trace" record when the
\* level is Info or above, in both cases without an error field; and a Trace
\* with an error on a logger below level Error emits no error record.
C15_SuppressedErrorFallsThrough ==
    (Traced /\ last.err # ErrNil) =>
        /\ (Suppressed /\ TookTooLong /\ Callee.logLevel >= 3 =>
                /\ Len(last.recs) = 1
                /\ last.recs[1].msg = "db slow query"
                /\ "error" \notin DOMAIN last.recs[1])
        /\ (Suppressed /\ ~(TookTooLong /\ Callee.logLevel >= 3) /\ Callee.logLevel >= 4 =>
                /\ Len(last.recs) = 1
                /\ last.recs[1].msg = "db trace"
                /\ "error" \notin DOMAIN last.recs[1])
        /\ (Callee.logLevel < 2 => ~HasRecord(last.recs, "error", "db error trace"))

\* C15 witness: an ignored record-not-found on a fast statement, traced at
\* level Info, came out as the "db trace" record.
C15_Witness ==
    /\ Traced
    /\ last.err = ErrRecordNotFound
    /\ Callee.ignoreRecordNotFoundError
    /\ ~TookTooLong
    /\ Callee.logLevel = 4
    /\ HasRecord(last.recs, "info", "db trace")

\* C16: when NewMulti returns an error it returns a nil map and no
\* connection; the connections opened before stay open, so after a failure at
\* record k the k-1 connections of the earlier records are open and not in
\* the result.
C16_FailureReturnsNilMap ==
    (NewMultiReturned /\ ret.err # "") =>
        /\ ret.nilMap
        /\ DOMAIN ret.m = {}
        /\ ret.db = 0
        /\ \A c \in 1..Len(conns) : ~conns[c].closed
        /\ (attempts # <<>> =>
                /\ Len(conns) >= Len(attempts) - 1
                /\ \A c \in 1..(Len(attempts) - 1) :
                      /\ conns[c].pool.set
                      /\ conns[c].dsn = ExpectedDSN(RecordsGiven[c]))

\* C16 witness: the second record's pool handle failed; two connections are
\* open and the map returned is nil.
C16_Witness ==
    /\ NewMultiReturned
    /\ Len(attempts) = 2
    /\ attempts[2].outcome = "poolErr"
    /\ ret.nilMap
    /\ Len(conns) = 2
    /\ conns[1].pool.set

\* C17: when two or more of the records given to NewMulti have the same
\* database name and all connect, a connection is opened for every record and
\* the map returned has one entry per distinct name, bound to the connection
\* of the last record of that name; its size is the number of distinct names.
C17_DuplicateNamesOverwrite ==
    (/\ NewMultiReturned
     /\ AllConnected
     /\ Cardinality(NamesGiven) < Len(RecordsGiven)) =>
        /\ ret.err = ""
        /\ ~ret.nilMap
        /\ Len(conns) = Len(RecordsGiven)
        /\ \A c \in 1..Len(conns) : conns[c].dsn = ExpectedDSN(RecordsGiven[c])
        /\ DOMAIN ret.m = NamesGiven
        /\ Cardinality(DOMAIN ret.m) = Cardinality(NamesGiven)
        /\ \A n \in DOMAIN ret.m : ret.m[n] = LastWithName(n, Len(RecordsGiven))

\* C17 witness: db1 on the first host and db1 on the second both connected;
\* the map has the one entry db1, bound to the second connection.
C17_Witness ==
    /\ NewMultiReturned
    /\ AllConnected
    /\ Len(RecordsGiven) = 2
    /\ RecordsGiven[1] # RecordsGiven[2]
    /\ DOMAIN ret.m = {"db1"}
    /\ ret.m["db1"] = 2
    /\ Len(conns) = 2

====
